---- MODULE Spec2Model ----
(***************************************************************************)
(* The to-do canister of src/to-do-icp-backend/src/lib.rs as a state       *)
(* machine: the task map TASKS, the id counter NEXT_ID, and one action per *)
(* exposed update or query method.  Every call runs to completion before   *)
(* the next one starts (no method awaits), so one call is one step.        *)
(***************************************************************************)
EXTENDS Integers, Sequences, FiniteSets, Bags, TLC

VARIABLES
    TASKS,      \* HashMap<u64, Task>: a function from the stored ids to tasks
    NEXT_ID,    \* u64 counter
    last,       \* the last call: its method, its arguments, its reply, and
                \* whether the call before was the same call
    calls,      \* number of calls made so far
    pending,    \* add_task invocations that hold an id and have not yet
                \* inserted their task (empty while calls run one at a time)
    returned,   \* history: the ids add_task has returned, in call order
    deleted     \* history: the ids delete_task has removed

vars == <<TASKS, NEXT_ID, last, calls, pending, returned, deleted>>

----------------------------------------------------------------------------
(* Bounds of the model. *)

MaxCalls == 3

----------------------------------------------------------------------------
(* u64 values of the id counter.  The model checker's integers are 32 bits *)
(* wide, so a u64 is held as four 16-bit limbs, most significant first.    *)

LimbBase == 2 ^ 16

LimbMax == LimbBase - 1

U64_ZERO == <<0, 0, 0, 0>>

U64_ONE == <<0, 0, 0, 1>>

U64_MAX == <<LimbMax, LimbMax, LimbMax, LimbMax>>

\* x + 1 modulo 2^64: the carry runs from the last limb upwards.
RECURSIVE AddOneFrom(_, _)
AddOneFrom(x, i) ==
    IF i = 0 THEN x
    ELSE IF x[i] = LimbMax THEN AddOneFrom([x EXCEPT ![i] = 0], i - 1)
    ELSE [x EXCEPT ![i] = x[i] + 1]

wrapping_add_one(x) == AddOneFrom(x, 4)

----------------------------------------------------------------------------
(* Option<T>: None is the empty tuple, Some(v) the one-element tuple, so   *)
(* that Option<Option<T>> keeps its three values None, Some(None) and      *)
(* Some(Some(v)) apart.  Option::map_or(default, f) is written out where   *)
(* it is used: the default for None, f of the value for Some.              *)

None == <<>>

Some(v) == <<v>>

unwrap_or(opt, default) == IF opt = None THEN default ELSE opt[1]

RepeatCycle == {"Daily", "Weekly", "Monthly", "Yearly"}

----------------------------------------------------------------------------
(* Time.  ic_cdk::api::time() is a u64 count of nanoseconds; it is held as *)
(* whole seconds and the nanoseconds left over.                            *)

NANOS_PER_SECOND == 1000000000

SECONDS_PER_DAY == 86400

END_OF_DAY_OFFSET == 86399

\* time() / 1_000_000_000
now_seconds(time) == time.secs + (time.nanos \div NANOS_PER_SECOND)

start_of_day(time) == now_seconds(time) - (now_seconds(time) % SECONDS_PER_DAY)

end_of_day(time) == start_of_day(time) + END_OF_DAY_OFFSET

----------------------------------------------------------------------------
(* Inputs the calls are made with. *)

DayStart == 20000 * SECONDS_PER_DAY

Titles == {"Buy milk", "Pay rent"}

Principals == {"alice", "bob"}

DueDates ==
    {DayStart - 1, DayStart, DayStart + 1,
     DayStart + END_OF_DAY_OFFSET, DayStart + SECONDS_PER_DAY}

Clock ==
    {[secs |-> s, nanos |-> n] :
        s \in {DayStart, DayStart + 1, DayStart + END_OF_DAY_OFFSET,
               DayStart + SECONDS_PER_DAY},
        n \in {0, NANOS_PER_SECOND - 1}}

\* TaskInput values: the title alone, the title and a due date, and inputs
\* with every field given.
TaskInputs ==
    {[title |-> t, is_important |-> None, due_date |-> None, reminder |-> None,
      repeat |-> None, assigned_to |-> None] : t \in Titles}
    \cup
    {[title |-> "Buy milk", is_important |-> None, due_date |-> Some(d),
      reminder |-> None, repeat |-> None, assigned_to |-> None] : d \in DueDates}
    \cup
    {[title |-> "Pay rent", is_important |-> Some(i), due_date |-> Some(DayStart + 1),
      reminder |-> Some(DayStart), repeat |-> Some("Daily"),
      assigned_to |-> Some(p)] : i \in BOOLEAN, p \in Principals}

\* The UpdateTaskInput that mentions no field.
NoPatch ==
    [title |-> None, is_completed |-> None, is_important |-> None,
     due_date |-> None, reminder |-> None, repeat |-> None, assigned_to |-> None]

\* UpdateTaskInput values: no field, one field (set or, where the field is
\* optional, cleared), and every field at once.
UpdateTaskInputs ==
    {NoPatch}
    \cup {[NoPatch EXCEPT !.title = Some(t)] : t \in Titles}
    \cup {[NoPatch EXCEPT !.is_completed = Some(b)] : b \in BOOLEAN}
    \cup {[NoPatch EXCEPT !.is_important = Some(b)] : b \in BOOLEAN}
    \cup {[NoPatch EXCEPT !.due_date = Some(d)] :
            d \in {None, Some(DayStart), Some(DayStart + SECONDS_PER_DAY)}}
    \cup {[NoPatch EXCEPT !.reminder = Some(r)] : r \in {None, Some(DayStart + 1)}}
    \cup {[NoPatch EXCEPT !.repeat = Some(r)] : r \in {None, Some("Weekly")}}
    \cup {[NoPatch EXCEPT !.assigned_to = Some(p)] :
            p \in {None} \cup {Some(q) : q \in Principals}}
    \cup {[title |-> Some("Pay rent"), is_completed |-> Some(TRUE),
           is_important |-> Some(TRUE), due_date |-> Some(None),
           reminder |-> Some(None), repeat |-> Some(None),
           assigned_to |-> Some(None)],
          [title |-> Some("Buy milk"), is_completed |-> Some(FALSE),
           is_important |-> Some(FALSE), due_date |-> Some(Some(DayStart - 1)),
           reminder |-> Some(Some(DayStart)), repeat |-> Some(Some("Yearly")),
           assigned_to |-> Some(Some("bob"))]}

\* The ids update_task and delete_task are called with: every stored id,
\* every id removed earlier, and the id the counter will hand out next.
ProbeIds == (DOMAIN TASKS) \cup deleted \cup {NEXT_ID}

----------------------------------------------------------------------------
(* The task map. *)

EmptyMap == [k \in {} |-> k]

\* HashMap::insert: the entry under id is added, or replaced when present.
insert(tasks, id, task) ==
    [k \in (DOMAIN tasks) \cup {id} |-> IF k = id THEN task ELSE tasks[k]]

\* A remove that takes nothing out.
remove_nothing(tasks, id) == tasks

\* HashMap::remove
remove(tasks, id) == [k \in (DOMAIN tasks) \ {id} |-> tasks[k]]

\* values().filter(..).cloned().collect(): the Vec of the tasks stored under
\* keys, in no particular order, as a bag.
collect(tasks, keys) ==
    [t \in {tasks[k] : k \in keys} |-> Cardinality({k \in keys : tasks[k] = t})]

----------------------------------------------------------------------------
(* Replies. *)

Reply(tag, value) == <<tag, value>>

Ok == Reply("Ok", <<>>)

NotFound == Reply("Err", "Task not found")

Call(op, arg, ret) ==
    [op |-> op, arg |-> arg, ret |-> ret,
     again |-> last.op = op /\ last.arg = arg]

\* Before the first call.
NoCall == [op |-> "init", arg |-> <<>>, ret |-> Ok, again |-> FALSE]

----------------------------------------------------------------------------
(* Initial state: an empty map and a counter of 0. *)

Init ==
    /\ TASKS = EmptyMap
    /\ NEXT_ID = U64_ZERO
    /\ last = NoCall
    /\ calls = 0
    /\ pending = <<>>
    /\ returned = <<>>
    /\ deleted = {}

----------------------------------------------------------------------------
(* add_task *)

\* `*next_id += 1`: past u64::MAX the addition wraps in a build without
\* overflow checks and panics in a build with them.
increment_outcomes(c) == IF c = U64_MAX THEN {"wrap", "panic"} ELSE {"ok"}

\* The increment left out: the counter stays where it is.
next_id_stuck(c) == c

next_id_after(c) == wrapping_add_one(c)

\* The input's is_important dropped: every new task starts unimportant.
new_task_unimportant(id, input) ==
    [id |-> id,
     title |-> input.title,
     is_completed |-> FALSE,
     is_important |-> FALSE,
     due_date |-> input.due_date,
     reminder |-> input.reminder,
     repeat |-> input.repeat,
     assigned_to |-> input.assigned_to]

new_task(id, input) ==
    [id |-> id,
     title |-> input.title,
     is_completed |-> FALSE,
     is_important |-> unwrap_or(input.is_important, FALSE),
     due_date |-> input.due_date,
     reminder |-> input.reminder,
     repeat |-> input.repeat,
     assigned_to |-> input.assigned_to]

add_task(input) ==
    /\ calls < MaxCalls
    /\ calls' = calls + 1
    /\ UNCHANGED pending
    /\ \E outcome \in increment_outcomes(NEXT_ID) :
        IF outcome = "panic"
        THEN \* the call traps and the canister state is rolled back
             /\ last' = Call("add_task", input, Reply("Trap", <<>>))
             /\ UNCHANGED <<TASKS, NEXT_ID, returned, deleted>>
        ELSE LET id == NEXT_ID IN
             /\ NEXT_ID' = next_id_after(NEXT_ID)
             /\ TASKS' = insert(TASKS, id, new_task(id, input))
             /\ last' = Call("add_task", input, Reply("Id", id))
             /\ returned' = Append(returned, id)
             /\ UNCHANGED deleted

AddTask == \E input \in TaskInputs : add_task(input)

\* add_task taken apart into its two accesses to the state, for invocations
\* that overlap: the NEXT_ID.with block, which reads the counter as the id
\* and increments it in one step, ...
begin_add_task(input) ==
    /\ calls < MaxCalls
    /\ calls' = calls + 1
    /\ \E outcome \in increment_outcomes(NEXT_ID) :
        IF outcome = "panic"
        THEN /\ last' = Call("add_task", input, Reply("Trap", <<>>))
             /\ UNCHANGED <<TASKS, NEXT_ID, pending, returned, deleted>>
        ELSE LET id == NEXT_ID IN
             /\ NEXT_ID' = next_id_after(NEXT_ID)
             /\ pending' = Append(pending, [id |-> id, input |-> input])
             /\ last' = Call("add_task", input, Reply("Pending", id))
             /\ UNCHANGED <<TASKS, returned, deleted>>

BeginAddTask == \E input \in TaskInputs : begin_add_task(input)

\* The id taken from the number of stored tasks when the task is inserted,
\* instead of the id the invocation holds.
finish_add_task_by_len(i) ==
    LET id == <<0, 0, 0, Cardinality(DOMAIN TASKS)>>
        input == pending[i].input
    IN  /\ TASKS' = insert(TASKS, id, new_task(id, input))
        /\ pending' = [j \in 1..(Len(pending) - 1) |->
                            IF j < i THEN pending[j] ELSE pending[j + 1]]
        /\ last' = Call("add_task", input, Reply("Id", id))
        /\ returned' = Append(returned, id)
        /\ UNCHANGED <<NEXT_ID, calls, deleted>>

\* ... and the TASKS.with block, which inserts the task under that id and
\* returns the id.
finish_add_task(i) ==
    LET id == pending[i].id
        input == pending[i].input
    IN  /\ TASKS' = insert(TASKS, id, new_task(id, input))
        /\ pending' = [j \in 1..(Len(pending) - 1) |->
                            IF j < i THEN pending[j] ELSE pending[j + 1]]
        /\ last' = Call("add_task", input, Reply("Id", id))
        /\ returned' = Append(returned, id)
        /\ UNCHANGED <<NEXT_ID, calls, deleted>>

FinishAddTask == \E i \in 1..Len(pending) : finish_add_task(i)

----------------------------------------------------------------------------
(* update_task *)

\* A present is_completed flips the flag instead of setting it.
patched_toggling(task, input) ==
    [id |-> task.id,
     title |-> IF input.title # None THEN input.title[1] ELSE task.title,
     is_completed |->
        IF input.is_completed # None THEN ~task.is_completed ELSE task.is_completed,
     is_important |->
        IF input.is_important # None THEN input.is_important[1] ELSE task.is_important,
     due_date |-> IF input.due_date # None THEN input.due_date[1] ELSE task.due_date,
     reminder |-> IF input.reminder # None THEN input.reminder[1] ELSE task.reminder,
     repeat |-> IF input.repeat # None THEN input.repeat[1] ELSE task.repeat,
     assigned_to |->
        IF input.assigned_to # None THEN input.assigned_to[1] ELSE task.assigned_to]

\* The task rebuilt from the default task: its id falls back to 0.
patched_id_reset(task, input) ==
    [id |-> U64_ZERO,
     title |-> IF input.title # None THEN input.title[1] ELSE task.title,
     is_completed |->
        IF input.is_completed # None THEN input.is_completed[1] ELSE task.is_completed,
     is_important |->
        IF input.is_important # None THEN input.is_important[1] ELSE task.is_important,
     due_date |-> IF input.due_date # None THEN input.due_date[1] ELSE task.due_date,
     reminder |-> IF input.reminder # None THEN input.reminder[1] ELSE task.reminder,
     repeat |-> IF input.repeat # None THEN input.repeat[1] ELSE task.repeat,
     assigned_to |->
        IF input.assigned_to # None THEN input.assigned_to[1] ELSE task.assigned_to]

\* Absent is_completed read as false instead of left alone.
patched_completed_reset(task, input) ==
    [id |-> task.id,
     title |-> IF input.title # None THEN input.title[1] ELSE task.title,
     is_completed |-> unwrap_or(input.is_completed, FALSE),
     is_important |->
        IF input.is_important # None THEN input.is_important[1] ELSE task.is_important,
     due_date |-> IF input.due_date # None THEN input.due_date[1] ELSE task.due_date,
     reminder |-> IF input.reminder # None THEN input.reminder[1] ELSE task.reminder,
     repeat |-> IF input.repeat # None THEN input.repeat[1] ELSE task.repeat,
     assigned_to |->
        IF input.assigned_to # None THEN input.assigned_to[1] ELSE task.assigned_to]

\* The two levels of the optional fields flattened: present and empty is
\* read as absent.
patched_flattened(task, input) ==
    LET flat(entry, old) ==
            IF entry # None /\ entry[1] # None THEN entry[1] ELSE old
    IN  [id |-> task.id,
         title |-> IF input.title # None THEN input.title[1] ELSE task.title,
         is_completed |->
            IF input.is_completed # None THEN input.is_completed[1] ELSE task.is_completed,
         is_important |->
            IF input.is_important # None THEN input.is_important[1] ELSE task.is_important,
         due_date |-> flat(input.due_date, task.due_date),
         reminder |-> flat(input.reminder, task.reminder),
         repeat |-> flat(input.repeat, task.repeat),
         assigned_to |-> flat(input.assigned_to, task.assigned_to)]

patched(task, input) ==
    [id |-> task.id,
     title |-> IF input.title # None THEN input.title[1] ELSE task.title,
     is_completed |->
        IF input.is_completed # None THEN input.is_completed[1] ELSE task.is_completed,
     is_important |->
        IF input.is_important # None THEN input.is_important[1] ELSE task.is_important,
     due_date |-> IF input.due_date # None THEN input.due_date[1] ELSE task.due_date,
     reminder |-> IF input.reminder # None THEN input.reminder[1] ELSE task.reminder,
     repeat |-> IF input.repeat # None THEN input.repeat[1] ELSE task.repeat,
     assigned_to |->
        IF input.assigned_to # None THEN input.assigned_to[1] ELSE task.assigned_to]

\* An update that creates the task when the id is not stored.
update_task_upsert(id, input) ==
    /\ calls < MaxCalls
    /\ calls' = calls + 1
    /\ UNCHANGED pending
    /\ LET default ==
            [id |-> id, title |-> "", is_completed |-> FALSE, is_important |-> FALSE,
             due_date |-> None, reminder |-> None, repeat |-> None,
             assigned_to |-> None]
           task == IF id \in DOMAIN TASKS THEN TASKS[id] ELSE default
       IN  /\ TASKS' = insert(TASKS, id, patched(task, input))
           /\ last' = Call("update_task", <<id, input>>, Ok)
    /\ UNCHANGED <<NEXT_ID, returned, deleted>>

update_task(id, input) ==
    /\ calls < MaxCalls
    /\ calls' = calls + 1
    /\ UNCHANGED pending
    /\ IF id \notin DOMAIN TASKS
       THEN /\ last' = Call("update_task", <<id, input>>, NotFound)
            /\ UNCHANGED TASKS
       ELSE /\ TASKS' = [TASKS EXCEPT ![id] = patched(TASKS[id], input)]
            /\ last' = Call("update_task", <<id, input>>, Ok)
    /\ UNCHANGED <<NEXT_ID, returned, deleted>>

UpdateTask == \E id \in ProbeIds, input \in UpdateTaskInputs : update_task(id, input)

----------------------------------------------------------------------------
(* delete_task *)

\* A delete that hands the freed id back to the counter.
delete_task_reclaim(id) ==
    /\ calls < MaxCalls
    /\ calls' = calls + 1
    /\ UNCHANGED pending
    /\ IF id \notin DOMAIN TASKS
       THEN /\ last' = Call("delete_task", id, NotFound)
            /\ UNCHANGED <<TASKS, NEXT_ID, deleted>>
       ELSE /\ TASKS' = remove(TASKS, id)
            /\ NEXT_ID' = id
            /\ last' = Call("delete_task", id, Ok)
            /\ deleted' = deleted \cup {id}
    /\ UNCHANGED returned

delete_task(id) ==
    /\ calls < MaxCalls
    /\ calls' = calls + 1
    /\ UNCHANGED pending
    /\ IF id \notin DOMAIN TASKS
       THEN /\ last' = Call("delete_task", id, NotFound)
            /\ UNCHANGED <<TASKS, deleted>>
       ELSE /\ TASKS' = remove(TASKS, id)
            /\ last' = Call("delete_task", id, Ok)
            /\ deleted' = deleted \cup {id}
    /\ UNCHANGED <<NEXT_ID, returned>>

DeleteTask == \E id \in ProbeIds : delete_task(id)

----------------------------------------------------------------------------
(* The queries. *)

get_all_tasks(tasks) == collect(tasks, DOMAIN tasks)

\* The filter left out: every task counts as active.
get_active_tasks_unfiltered(tasks) == collect(tasks, DOMAIN tasks)

get_active_tasks(tasks) ==
    collect(tasks, {k \in DOMAIN tasks : ~tasks[k].is_completed})

get_completed_tasks(tasks) ==
    collect(tasks, {k \in DOMAIN tasks : tasks[k].is_completed})

\* A task with no due date taken as due today.
due_today_or_none(task, time) ==
    LET within(due_date) ==
            due_date >= start_of_day(time) /\ due_date <= end_of_day(time)
    IN  IF task.due_date = None THEN TRUE ELSE within(task.due_date[1])

\* Only what is already past counts as today.
due_today_so_far(task, time) ==
    LET within(due_date) ==
            due_date >= start_of_day(time) /\ due_date <= now_seconds(time)
    IN  IF task.due_date = None THEN FALSE ELSE within(task.due_date[1])

\* The last second of the day left out.
due_today_open(task, time) ==
    LET within(due_date) ==
            due_date >= start_of_day(time) /\ due_date < end_of_day(time)
    IN  IF task.due_date = None THEN FALSE ELSE within(task.due_date[1])

due_today(task, time) ==
    LET within(due_date) ==
            due_date >= start_of_day(time) /\ due_date <= end_of_day(time)
    IN  IF task.due_date = None THEN FALSE ELSE within(task.due_date[1])

get_today_tasks(tasks, time) ==
    collect(tasks, {k \in DOMAIN tasks : due_today(tasks[k], time)})

get_important_tasks(tasks) ==
    collect(tasks, {k \in DOMAIN tasks : tasks[k].is_important})

\* The current second taken as future.
due_later_or_now(task, time) ==
    LET future(due_date) == due_date >= now_seconds(time)
    IN  IF task.due_date = None THEN FALSE ELSE future(task.due_date[1])

\* A task with no due date taken as planned.
due_later_or_none(task, time) ==
    LET future(due_date) == due_date > now_seconds(time)
    IN  IF task.due_date = None THEN TRUE ELSE future(task.due_date[1])

due_later(task, time) ==
    LET future(due_date) == due_date > now_seconds(time)
    IN  IF task.due_date = None THEN FALSE ELSE future(task.due_date[1])

get_planned_tasks(tasks, time) ==
    collect(tasks, {k \in DOMAIN tasks : due_later(tasks[k], time)})

\* A task assigned to nobody shown to every caller.
assigned_to_caller_or_nobody(task, caller) ==
    LET same(assigned_principal) == assigned_principal = caller
    IN  IF task.assigned_to = None THEN TRUE ELSE same(task.assigned_to[1])

assigned_to_caller(task, caller) ==
    LET same(assigned_principal) == assigned_principal = caller
    IN  IF task.assigned_to = None THEN FALSE ELSE same(task.assigned_to[1])

get_assigned_tasks(tasks, caller) ==
    collect(tasks, {k \in DOMAIN tasks : assigned_to_caller(tasks[k], caller)})

\* The first second of the day left out of the count.
counted_today_open(task, time) ==
    LET within(due_date) ==
            due_date > start_of_day(time) /\ due_date <= end_of_day(time)
    IN  IF task.due_date = None THEN FALSE ELSE within(task.due_date[1])

counted_today(task, time) ==
    LET within(due_date) ==
            due_date >= start_of_day(time) /\ due_date <= end_of_day(time)
    IN  IF task.due_date = None THEN FALSE ELSE within(task.due_date[1])

count_today_tasks(tasks, time) ==
    Cardinality({k \in DOMAIN tasks : counted_today(tasks[k], time)})

\* A read that takes the tasks out of the map instead of cloning them.
Query_draining(op, arg, ret) ==
    /\ calls < MaxCalls
    /\ calls' = calls + 1
    /\ UNCHANGED pending
    /\ last' = Call(op, arg, ret)
    /\ TASKS' = EmptyMap
    /\ UNCHANGED <<NEXT_ID, returned, deleted>>

\* A query call: it replies and changes neither the map nor the counter.
Query(op, arg, ret) ==
    /\ calls < MaxCalls
    /\ calls' = calls + 1
    /\ UNCHANGED pending
    /\ last' = Call(op, arg, ret)
    /\ UNCHANGED <<TASKS, NEXT_ID, returned, deleted>>

GetAllTasks == Query("get_all_tasks", <<>>, Reply("Vec", get_all_tasks(TASKS)))

GetActiveTasks == Query("get_active_tasks", <<>>, Reply("Vec", get_active_tasks(TASKS)))

GetCompletedTasks ==
    Query("get_completed_tasks", <<>>, Reply("Vec", get_completed_tasks(TASKS)))

GetTodayTasks ==
    \E time \in Clock :
        Query("get_today_tasks", time, Reply("Vec", get_today_tasks(TASKS, time)))

GetImportantTasks ==
    Query("get_important_tasks", <<>>, Reply("Vec", get_important_tasks(TASKS)))

GetPlannedTasks ==
    \E time \in Clock :
        Query("get_planned_tasks", time, Reply("Vec", get_planned_tasks(TASKS, time)))

GetAssignedTasks ==
    \E caller \in Principals :
        Query("get_assigned_tasks", caller, Reply("Vec", get_assigned_tasks(TASKS, caller)))

CountTodayTasks ==
    \E time \in Clock :
        Query("count_today_tasks", time, Reply("Count", count_today_tasks(TASKS, time)))

----------------------------------------------------------------------------

Next ==
    \/ AddTask
    \/ UpdateTask
    \/ DeleteTask
    \/ GetAllTasks
    \/ GetActiveTasks
    \/ GetCompletedTasks
    \/ GetTodayTasks
    \/ GetImportantTasks
    \/ GetPlannedTasks
    \/ GetAssignedTasks
    \/ CountTodayTasks

Spec == Init /\ [][Next]_vars

\* The same program with add_task invocations that overlap each other and
\* the other calls between their two accesses to the state.
NextConcurrent ==
    \/ BeginAddTask
    \/ FinishAddTask
    \/ UpdateTask
    \/ DeleteTask
    \/ GetAllTasks
    \/ GetActiveTasks
    \/ GetCompletedTasks
    \/ GetTodayTasks
    \/ GetImportantTasks
    \/ GetPlannedTasks
    \/ GetAssignedTasks
    \/ CountTodayTasks

SpecConcurrent == Init /\ [][NextConcurrent]_vars

\* The same program started with the counter at sampled values of the u64
\* range, among them the last two, to examine the increment over the range.
CounterValues ==
    {U64_ZERO,
     <<0, 0, 0, LimbMax>>,
     <<0, LimbMax, LimbMax, LimbMax>>,
     <<LimbMax, LimbMax, LimbMax, LimbMax - 1>>,
     U64_MAX}

InitCounter ==
    /\ TASKS = EmptyMap
    /\ NEXT_ID \in CounterValues
    /\ last = NoCall
    /\ calls = 0
    /\ pending = <<>>
    /\ returned = <<>>
    /\ deleted = {}

SpecCounter == InitCounter /\ [][Next]_vars

----------------------------------------------------------------------------
(* Properties. *)

\* x < y on u64: the first limb that differs decides.
U64Lt(x, y) ==
    \E i \in 1..4 :
        /\ x[i] < y[i]
        /\ \A j \in 1..(i - 1) : x[j] = y[j]

\* The last call was an add_task that returned an id.
ReturnedId(call) == call.op = "add_task" /\ call.ret[1] = "Id"

\* C1: the ids add_task returns, in call order and whatever other calls come
\* between, are strictly increasing (hence pairwise distinct); from the empty
\* store the first is 0 and the second is 1.
C1_IdsStrictlyIncreasing ==
    /\ \A i, j \in 1..Len(returned) : i < j => U64Lt(returned[i], returned[j])
    /\ Len(returned) >= 1 => returned[1] = U64_ZERO
    /\ Len(returned) >= 2 => returned[2] = U64_ONE
    /\ ReturnedId(last) => last.ret[2] = returned[Len(returned)]

\* Two ids were returned with an update of the first task in between.
C1_Witness ==
    /\ ReturnedId(last)
    /\ returned = <<U64_ZERO, U64_ONE>>
    /\ U64_ZERO \in DOMAIN TASKS
    /\ TASKS[U64_ZERO].is_completed

\* C2: an id add_task returns was returned by no earlier add_task, also when
\* the task it named has been deleted since.
C2_IdNeverReused ==
    [][ReturnedId(last') =>
            /\ \A i \in 1..Len(returned) : returned[i] # last'.ret[2]
            /\ last'.ret[2] \notin deleted
            /\ last'.ret[2] \notin DOMAIN TASKS]_vars

\* An id was returned, its task deleted, and the next add_task returned
\* another id.
C2_Witness ==
    /\ ReturnedId(last)
    /\ Len(returned) = 2
    /\ returned[1] \in deleted
    /\ returned[2] \in DOMAIN TASKS
    /\ returned[1] \notin DOMAIN TASKS

\* y is exactly one greater than x, as numbers: some limb is one greater,
\* the limbs above it agree, the limbs below it went from the maximum to 0.
IsSuccessor(x, y) ==
    \E i \in 1..4 :
        /\ y[i] = x[i] + 1
        /\ \A j \in 1..(i - 1) : y[j] = x[j]
        /\ \A j \in (i + 1)..4 : x[j] = LimbMax /\ y[j] = 0

\* C3: every add_task call, at every counter value, returns the old counter
\* value and leaves the counter exactly 1 greater; every other call leaves the
\* counter unchanged.
C3_CounterAdvancesByOne ==
    [][/\ last'.op = "add_task" =>
            /\ last'.ret = Reply("Id", NEXT_ID)
            /\ IsSuccessor(NEXT_ID, NEXT_ID')
       /\ last'.op # "add_task" => NEXT_ID' = NEXT_ID]_vars

\* The bag of tasks holds a task with this id.
HasId(bag, id) == \E t \in DOMAIN bag : t.id = id

\* C4: once delete_task has removed an id, get_all_tasks holds no task with
\* that id, and every later update_task or delete_task of it replies not found.
C4_DeletedStaysDeleted ==
    [][/\ \A k \in deleted' : ~HasId(get_all_tasks(TASKS'), k)
       /\ (last'.op = "update_task" /\ last'.arg[1] \in deleted) => last'.ret = NotFound
       /\ (last'.op = "delete_task" /\ last'.arg \in deleted) => last'.ret = NotFound]_vars

\* A task was created and deleted, and the update of its id that followed
\* was refused.
C4_Witness ==
    /\ last.op = "update_task"
    /\ last.arg[1] \in deleted
    /\ last.ret = NotFound
    /\ calls = 3

\* C5: update_task or delete_task of an id that is not stored replies not
\* found and changes neither the map nor the counter, whatever the patch.
C5_NotFoundChangesNothing ==
    [][(\/ last'.op = "update_task" /\ last'.arg[1] \notin DOMAIN TASKS
        \/ last'.op = "delete_task" /\ last'.arg \notin DOMAIN TASKS)
       => /\ last'.ret = NotFound
          /\ TASKS' = TASKS
          /\ NEXT_ID' = NEXT_ID]_vars

\* A patch that mentions fields was refused for an id that is not stored,
\* while a task is stored under another id.
C5_Witness ==
    /\ last.op = "update_task"
    /\ last.ret = NotFound
    /\ last.arg[2] # NoPatch
    /\ DOMAIN TASKS # {}
    /\ last.arg[1] \notin deleted

\* C6: update_task of a stored id with the patch that mentions no field
\* succeeds and leaves the task, the other tasks and the counter as they were.
C6_EmptyPatchChangesNothing ==
    [][(/\ last'.op = "update_task"
        /\ last'.arg[1] \in DOMAIN TASKS
        /\ last'.arg[2] = NoPatch)
       => /\ last'.ret = Ok
          /\ DOMAIN TASKS' = DOMAIN TASKS
          /\ \A k \in DOMAIN TASKS : TASKS'[k] = TASKS[k]
          /\ NEXT_ID' = NEXT_ID]_vars

\* The empty patch was applied to a task that an earlier update had completed.
C6_Witness ==
    /\ last.op = "update_task"
    /\ last.arg[2] = NoPatch
    /\ last.ret = Ok
    /\ TASKS[last.arg[1]].is_completed

\* What a patch entry does to a field that is itself optional: absent keeps
\* it, present and empty clears it, present with a value sets it.
ThreeWay(entry, old, new) ==
    CASE entry = None -> new = old
      [] entry = Some(None) -> new = None
      [] OTHER -> new = Some(entry[1][1])

\* What a patch entry does to a plain field: absent keeps it, present sets it.
TwoWay(entry, old, new) ==
    IF entry = None THEN new = old ELSE new = entry[1]

\* C7: update_task of a stored id applies every entry of the patch on its own:
\* three outcomes for due_date, reminder, repeat and assigned_to, two for
\* title, is_completed and is_important; the id and every other task stay.
C7_PatchFieldByField ==
    [][(last'.op = "update_task" /\ last'.arg[1] \in DOMAIN TASKS)
       => LET id == last'.arg[1]
              p == last'.arg[2]
              old == TASKS[id]
              new == TASKS'[id]
          IN  /\ last'.ret = Ok
              /\ DOMAIN TASKS' = DOMAIN TASKS
              /\ \A k \in DOMAIN TASKS \ {id} : TASKS'[k] = TASKS[k]
              /\ new.id = old.id
              /\ TwoWay(p.title, old.title, new.title)
              /\ TwoWay(p.is_completed, old.is_completed, new.is_completed)
              /\ TwoWay(p.is_important, old.is_important, new.is_important)
              /\ ThreeWay(p.due_date, old.due_date, new.due_date)
              /\ ThreeWay(p.reminder, old.reminder, new.reminder)
              /\ ThreeWay(p.repeat, old.repeat, new.repeat)
              /\ ThreeWay(p.assigned_to, old.assigned_to, new.assigned_to)]_vars

\* A patch that only clears assigned_to was applied to a task created with
\* every field given, beside a second task: the assignment is gone and the
\* reminder and the repeat cycle are still there.
C7_Witness ==
    /\ last.op = "update_task"
    /\ last.ret = Ok
    /\ last.arg[2] = [NoPatch EXCEPT !.assigned_to = Some(None)]
    /\ Cardinality(DOMAIN TASKS) = 2
    /\ TASKS[last.arg[1]].assigned_to = None
    /\ TASKS[last.arg[1]].reminder = Some(DayStart)
    /\ TASKS[last.arg[1]].repeat = Some("Daily")

\* The task id is in neither date-based result and is not counted, at time.
OutOfDateReads(tasks, id, time) ==
    /\ ~HasId(get_today_tasks(tasks, time), id)
    /\ ~HasId(get_planned_tasks(tasks, time), id)
    /\ count_today_tasks(tasks, time) = count_today_tasks(remove(tasks, id), time)

\* The call was an update_task of id whose patch sets due_date to a value.
SetsDueDate(call, id) ==
    /\ call.op = "update_task"
    /\ call.arg[1] = id
    /\ call.arg[2].due_date # None
    /\ call.arg[2].due_date # Some(None)

\* C8: after an update_task that clears due_date the task is in neither
\* get_today_tasks nor get_planned_tasks and is not counted by
\* count_today_tasks at any time, and it stays out until an update_task sets
\* its due_date to a value.
C8_ClearedDueDateLeavesDateReads ==
    [][/\ (/\ last'.op = "update_task"
           /\ last'.arg[1] \in DOMAIN TASKS
           /\ last'.arg[2].due_date = Some(None))
          => \A time \in Clock : OutOfDateReads(TASKS', last'.arg[1], time)
       /\ \A id \in (DOMAIN TASKS) \cap (DOMAIN TASKS') :
            TASKS[id].due_date = None
            => \/ SetsDueDate(last', id)
               \/ \A time \in Clock : OutOfDateReads(TASKS', id, time)]_vars

\* The second call cleared the due date of a task that the first call had
\* created due later today.
C8_Witness ==
    /\ calls = 2
    /\ last.op = "update_task"
    /\ last.ret = Ok
    /\ last.arg[2] = [NoPatch EXCEPT !.due_date = Some(None)]
    /\ TASKS[last.arg[1]].due_date = None
    /\ TASKS[last.arg[1]].repeat = Some("Daily")

\* C9: in every state and at every time, count_today_tasks is the length of
\* the Vec get_today_tasks returns.
C9_CountIsLengthOfToday ==
    \A time \in Clock :
        count_today_tasks(TASKS, time) = BagCardinality(get_today_tasks(TASKS, time))

\* Three tasks are stored, two of them due on one of the days and none on
\* the day of another time.
C9_Witness ==
    /\ Cardinality(DOMAIN TASKS) = 3
    /\ \E time \in Clock : count_today_tasks(TASKS, time) = 2
    /\ \E time \in Clock : count_today_tasks(TASKS, time) = 0

\* The first second of the UTC day that holds the time: the multiple of
\* 86400 seconds at or before it.
DayOf(time) == (time.secs \div SECONDS_PER_DAY) * SECONDS_PER_DAY

\* C10: get_today_tasks returns exactly the stored tasks whose due date is
\* present and within the day of the current time, first and last second
\* included, the second before and the second after excluded.
C10_TodayIsTheCurrentDay ==
    \A time \in Clock :
        LET today == get_today_tasks(TASKS, time)
            due(k, d) == TASKS[k].due_date = Some(d)
            in_day(k) ==
                /\ TASKS[k].due_date # None
                /\ TASKS[k].due_date[1] \in DayOf(time)..(DayOf(time) + 86399)
        IN  /\ \A k \in DOMAIN TASKS : in_day(k) <=> HasId(today, k)
            /\ \A t \in DOMAIN today :
                 /\ t.id \in DOMAIN TASKS
                 /\ TASKS[t.id] = t
                 /\ today[t] = 1
            /\ \A k \in DOMAIN TASKS :
                 /\ due(k, DayOf(time)) => HasId(today, k)
                 /\ due(k, DayOf(time) + 86399) => HasId(today, k)
                 /\ due(k, DayOf(time) - 1) => ~HasId(today, k)
                 /\ due(k, DayOf(time) + 86400) => ~HasId(today, k)

\* Tasks are stored that are due, at some time of the clock, on the first
\* second of the day, on its last second, on the second before it and on the
\* second after it.
C10_Witness ==
    \A offset \in {0 - 1, 0, 86399, 86400} :
        \E time \in Clock, k \in DOMAIN TASKS :
            TASKS[k].due_date = Some(DayOf(time) + offset)

\* The stored tasks that `wanted` holds of, each once: what a filtering read
\* is to return.
IsExactly(bag, wanted(_)) ==
    /\ \A k \in DOMAIN TASKS : wanted(TASKS[k]) <=> HasId(bag, k)
    /\ \A t \in DOMAIN bag :
         /\ t.id \in DOMAIN TASKS
         /\ TASKS[t.id] = t
         /\ bag[t] = 1

\* C11: get_planned_tasks returns exactly the stored tasks whose due date is
\* present and strictly after the current second: due now is out, due in one
\* second is in, due earlier is out.
C11_PlannedIsStrictlyLater ==
    \A time \in Clock :
        LET planned == get_planned_tasks(TASKS, time)
            due(k, d) == TASKS[k].due_date = Some(d)
            later(t) == t.due_date # None /\ t.due_date[1] >= time.secs + 1
        IN  /\ IsExactly(planned, later)
            /\ \A k \in DOMAIN TASKS :
                 /\ due(k, time.secs) => ~HasId(planned, k)
                 /\ due(k, time.secs + 1) => HasId(planned, k)
                 /\ due(k, time.secs - 1) => ~HasId(planned, k)
                 /\ due(k, time.secs - 86400) => ~HasId(planned, k)

\* At one time of the clock a task is due that very second, another one
\* second later and a third one second earlier.
C11_Witness ==
    \E time \in Clock :
        \A offset \in {0 - 1, 0, 1} :
            \E k \in DOMAIN TASKS : TASKS[k].due_date = Some(time.secs + offset)

\* C12: a stored task with no due date is in neither get_today_tasks nor
\* get_planned_tasks and is not counted by count_today_tasks, at any time.
C12_NoDueDateNoDateRead ==
    \A k \in DOMAIN TASKS :
        TASKS[k].due_date = None
        => \A time \in Clock :
            /\ ~HasId(get_today_tasks(TASKS, time), k)
            /\ ~HasId(get_planned_tasks(TASKS, time), k)
            /\ count_today_tasks(TASKS, time)
                 = Cardinality({j \in DOMAIN TASKS \ {k} :
                                    HasId(get_today_tasks(TASKS, time), j)})

\* A task without a due date is stored beside one that is due today and
\* planned at some time.
C12_Witness ==
    /\ \E k \in DOMAIN TASKS : TASKS[k].due_date = None
    /\ \E time \in Clock, k \in DOMAIN TASKS :
         /\ HasId(get_today_tasks(TASKS, time), k)
         /\ HasId(get_planned_tasks(TASKS, time), k)
         /\ count_today_tasks(TASKS, time) = 1

\* C13: a stored task due after the current second and not after the last
\* second of the current day is in get_today_tasks and in get_planned_tasks.
C13_TodayAndPlannedOverlap ==
    \A time \in Clock, k \in DOMAIN TASKS :
        (/\ TASKS[k].due_date # None
         /\ time.secs < TASKS[k].due_date[1]
         /\ TASKS[k].due_date[1] <= DayOf(time) + 86399)
        => /\ HasId(get_today_tasks(TASKS, time), k)
           /\ HasId(get_planned_tasks(TASKS, time), k)

\* A task is due on the last second of the day while the time is the first
\* second of that day, and another is due one second after the current time.
C13_Witness ==
    \E time \in Clock, k, j \in DOMAIN TASKS :
        /\ time.secs = DayOf(time)
        /\ TASKS[k].due_date = Some(DayOf(time) + 86399)
        /\ TASKS[j].due_date = Some(time.secs + 1)

\* The call was an update_task of a stored id whose patch sets is_completed
\* to true.
Completes(call, id) ==
    /\ call.op = "update_task"
    /\ call.arg[1] = id
    /\ call.arg[2].is_completed = Some(TRUE)

\* C14: after every call get_active_tasks is exactly the stored tasks that
\* are not completed and get_completed_tasks exactly those that are, so the
\* two are disjoint and together are get_all_tasks; get_important_tasks is
\* exactly the important ones; and a task goes from active to completed
\* exactly when an update_task sets is_completed to true.
C14_ActiveCompletedImportant ==
    [][LET all == get_all_tasks(TASKS')
           active == get_active_tasks(TASKS')
           completed == get_completed_tasks(TASKS')
           important == get_important_tasks(TASKS')
       IN  /\ \A k \in DOMAIN TASKS' :
                /\ HasId(all, k)
                /\ HasId(active, k) <=> (TASKS'[k].is_completed = FALSE)
                /\ HasId(completed, k) <=> (TASKS'[k].is_completed = TRUE)
                /\ HasId(important, k) <=> (TASKS'[k].is_important = TRUE)
           /\ \A bag \in {all, active, completed, important} :
                \A t \in DOMAIN bag :
                    t.id \in DOMAIN TASKS' /\ TASKS'[t.id] = t /\ bag[t] = 1
           /\ (DOMAIN active) \cap (DOMAIN completed) = {}
           /\ active (+) completed = all
           /\ \A k \in (DOMAIN TASKS) \cap (DOMAIN TASKS') :
                HasId(get_active_tasks(TASKS), k)
                => (HasId(completed, k) <=> Completes(last', k))]_vars

\* The spec's scenario: two tasks created, the second one important, then the
\* first one completed by an update.
C14_Witness ==
    /\ Completes(last, U64_ZERO)
    /\ last.ret = Ok
    /\ DOMAIN TASKS = {U64_ZERO, U64_ONE}
    /\ TASKS[U64_ZERO].is_completed /\ ~TASKS[U64_ZERO].is_important
    /\ ~TASKS[U64_ONE].is_completed /\ TASKS[U64_ONE].is_important

\* C15: the task add_task stores is not completed, is important as the input
\* says or not important when the input is silent, and has the due date, the
\* reminder, the repeat cycle and the assignee of the input; it is in
\* get_active_tasks and not in get_completed_tasks, and stays so until an
\* update_task sets is_completed to true.
C15_NewTaskDefaults ==
    [][/\ ReturnedId(last') =>
            LET id == last'.ret[2]
                input == last'.arg
                task == TASKS'[id]
            IN  /\ id \in DOMAIN TASKS'
                /\ task.id = id
                /\ task.title = input.title
                /\ task.is_completed = FALSE
                /\ input.is_important = None => task.is_important = FALSE
                /\ input.is_important # None => task.is_important = input.is_important[1]
                /\ task.due_date = input.due_date
                /\ task.reminder = input.reminder
                /\ task.repeat = input.repeat
                /\ task.assigned_to = input.assigned_to
                /\ HasId(get_active_tasks(TASKS'), id)
                /\ ~HasId(get_completed_tasks(TASKS'), id)
       /\ \A k \in (DOMAIN TASKS) \cap (DOMAIN TASKS') :
            (~TASKS[k].is_completed /\ ~Completes(last', k))
            => /\ HasId(get_active_tasks(TASKS'), k)
               /\ ~HasId(get_completed_tasks(TASKS'), k)]_vars

\* A task was created with is_important given as true and every optional
\* field given, after another call.
C15_Witness ==
    /\ ReturnedId(last)
    /\ last.arg.is_important = Some(TRUE)
    /\ last.arg.assigned_to = Some("alice")
    /\ TASKS[last.ret[2]].is_important
    /\ calls >= 2

\* The read methods.
Reads ==
    {"get_all_tasks", "get_active_tasks", "get_completed_tasks", "get_today_tasks",
     "get_important_tasks", "get_planned_tasks", "get_assigned_tasks",
     "count_today_tasks"}

\* C17: every read leaves the task map and the id counter as they were and
\* replies with a Vec of tasks or a count; and in every state each read can be
\* called, at every time and by every caller, and replies.
C17_ReadsChangeNothing ==
    /\ [][last'.op \in Reads =>
            /\ TASKS' = TASKS
            /\ NEXT_ID' = NEXT_ID
            /\ IF last'.op = "count_today_tasks"
               THEN last'.ret[1] = "Count" /\ last'.ret[2] \in 0..Cardinality(DOMAIN TASKS)
               ELSE last'.ret[1] = "Vec" /\ IsABag(last'.ret[2])]_vars
    /\ [](calls < MaxCalls =>
            /\ ENABLED GetAllTasks
            /\ ENABLED GetActiveTasks
            /\ ENABLED GetCompletedTasks
            /\ ENABLED GetImportantTasks
            /\ \A time \in Clock :
                /\ ENABLED Query("get_today_tasks", time,
                                 Reply("Vec", get_today_tasks(TASKS, time)))
                /\ ENABLED Query("get_planned_tasks", time,
                                 Reply("Vec", get_planned_tasks(TASKS, time)))
                /\ ENABLED Query("count_today_tasks", time,
                                 Reply("Count", count_today_tasks(TASKS, time)))
            /\ \A caller \in Principals :
                ENABLED Query("get_assigned_tasks", caller,
                              Reply("Vec", get_assigned_tasks(TASKS, caller))))

\* get_today_tasks was called on a store of two tasks and returned one.
C17_Witness ==
    /\ last.op = "get_today_tasks"
    /\ Cardinality(DOMAIN TASKS) = 2
    /\ BagCardinality(last.ret[2]) = 1

\* The principals that call get_assigned_tasks: those tasks are assigned to,
\* and one that no task is ever assigned to.
Callers == Principals \cup {"carol"}

\* C18: get_assigned_tasks called by p returns exactly the stored tasks
\* assigned to p: an unassigned task goes to no caller, a task assigned to
\* another principal does not go to p, and once an update_task clears or
\* changes the assignee the task no longer goes to the one before.
C18_AssignedOnlyToTheCaller ==
    /\ [](\A p \in Callers :
            LET mine == get_assigned_tasks(TASKS, p)
                assigned_to_p(t) == t.assigned_to = Some(p)
            IN  /\ IsExactly(mine, assigned_to_p)
                /\ \A k \in DOMAIN TASKS :
                     /\ TASKS[k].assigned_to = None => ~HasId(mine, k)
                     /\ (\E q \in Callers \ {p} : TASKS[k].assigned_to = Some(q))
                        => ~HasId(mine, k))
    /\ [][(/\ last'.op = "update_task"
           /\ last'.arg[1] \in DOMAIN TASKS
           /\ last'.arg[2].assigned_to # None)
          => \A p \in Callers :
                (/\ HasId(get_assigned_tasks(TASKS, p), last'.arg[1])
                 /\ last'.arg[2].assigned_to # Some(Some(p)))
                => ~HasId(get_assigned_tasks(TASKS', p), last'.arg[1])]_vars

\* The second call cleared the assignee of a task that the first call had
\* created assigned to alice or bob.
C18_Witness ==
    /\ calls = 2
    /\ last.op = "update_task"
    /\ last.ret = Ok
    /\ last.arg[2].assigned_to = Some(None)
    /\ TASKS[last.arg[1]].reminder = Some(DayStart)
    /\ TASKS[last.arg[1]].assigned_to = None

\* C19: every entry of the task map is stored under its task's own id, every
\* stored key is below the id counter, and no call changes the id of a task
\* that stays stored.
C19_KeyIsIdBelowCounter ==
    /\ [](\A k \in DOMAIN TASKS : TASKS[k].id = k /\ U64Lt(k, NEXT_ID))
    /\ [][\A k \in (DOMAIN TASKS) \cap (DOMAIN TASKS') : TASKS'[k].id = TASKS[k].id]_vars

\* The second of two stored tasks was changed by an update.
C19_Witness ==
    /\ last.op = "update_task"
    /\ last.ret = Ok
    /\ last.arg[1] = U64_ONE
    /\ last.arg[2] # NoPatch
    /\ DOMAIN TASKS = {U64_ZERO, U64_ONE}
    /\ NEXT_ID = <<0, 0, 0, 2>>

\* C20: an update_task of a stored id made twice in a row with the same patch
\* leaves the store after the second call as it was after the first, and both
\* calls succeed; so patching any stored task twice gives what patching it
\* once gives, for every patch.
C20_UpdateTwiceIsUpdateOnce ==
    /\ [][(/\ last.op = "update_task"
           /\ last.ret = Ok
           /\ last'.op = "update_task"
           /\ last'.arg = last.arg)
          => /\ last'.ret = Ok
             /\ TASKS' = TASKS
             /\ NEXT_ID' = NEXT_ID]_vars
    /\ [](\A k \in DOMAIN TASKS, input \in UpdateTaskInputs :
            patched(patched(TASKS[k], input), input) = patched(TASKS[k], input))

\* The same patch, one that flips is_completed to true and clears the optional
\* fields, was applied twice in a row to a task created with them set.
C20_Witness ==
    /\ calls = 3
    /\ last.op = "update_task"
    /\ last.again
    /\ last.ret = Ok
    /\ last.arg[2].is_completed = Some(TRUE)
    /\ last.arg[2].due_date = Some(None)
    /\ TASKS[last.arg[1]].is_completed
    /\ TASKS[last.arg[1]].due_date = None

\* The ids the add_task invocations in flight hold.
PendingIds == {pending[i].id : i \in 1..Len(pending)}

\* C16: add_task invocations that overlap never get the same id, the id being
\* read and the counter incremented in one step; and the insertion, a later
\* step, puts the task under a key that is not stored and leaves every task
\* of another invocation as it was.
C16_OverlappingAddsGetDistinctIds ==
    /\ [](/\ \A i, j \in 1..Len(pending) : pending[i].id = pending[j].id => i = j
          /\ \A i, j \in 1..Len(returned) : returned[i] = returned[j] => i = j
          /\ \A i \in 1..Len(returned) : returned[i] \notin PendingIds
          /\ PendingIds \cap DOMAIN TASKS = {}
          /\ NEXT_ID \notin PendingIds)
    /\ [][ReturnedId(last') =>
            /\ last'.ret[2] \notin DOMAIN TASKS
            /\ DOMAIN TASKS' = (DOMAIN TASKS) \cup {last'.ret[2]}
            /\ \A k \in DOMAIN TASKS : TASKS'[k] = TASKS[k]
            /\ TASKS'[last'.ret[2]].id = last'.ret[2]]_vars

\* Two invocations took their ids one after the other and inserted their
\* tasks in the opposite order, with a third still in flight.
C16_Witness ==
    /\ returned = <<U64_ONE, U64_ZERO>>
    /\ DOMAIN TASKS = {U64_ZERO, U64_ONE}
    /\ PendingIds = {<<0, 0, 0, 2>>}

====
